---- MODULE Spec2Model ----
\* A model of tortoise_typer/model_typer.py: the ModelTyper app shell, the
\* signature synthesizer (_inject_model_signature), the five command handlers
\* registered by _add_model_methods, and the persistence calls they make.
\*
\* Python values are encoded as strings ("None" is Python's None, "True" and
\* "False" the booleans, "0"/"1" integers parsed from the command line), except
\* instance identifiers, which are integers.
EXTENDS Integers, Sequences, FiniteSets, TLC

VARIABLES
    obj,      \* the object handed to ModelTyper(model)
    app,      \* the app shell: construction status and registered commands
    store,    \* the persistence layer's rows, in the order all() returns them
    nextId,   \* the next generated primary key
    last,     \* the command invocation that ran last
    pre,      \* the store as it was when that invocation started
    calls,    \* the persistence calls that invocation made, in order
    panels,   \* the panels (info / warning / error) it printed
    tables,   \* the tables it printed
    raised    \* the exception that escaped the handler, "None" if it returned

vars == <<obj, app, store, nextId, last, pre, calls, panels, tables, raised>>

-----------------------------------------------------------------------------
\* Bounds of the model.

\* Longest field mapping of an enumerated model class.
MaxFields == 3

\* Number of instances created in one run; identifiers range one beyond it.
MaxInstances == 2

-----------------------------------------------------------------------------
\* Field descriptors and the objects a caller can hand to ModelTyper.

None == "None"

FieldNames == {"id", "title", "done"}

\* What a field declares besides its name. A declared default has the type
\* of its field: False for a BooleanField, 0 for an IntField.

\* A primary-key field.
PkShapes ==
    [kind : {"int", "text"}, null : {FALSE}, default : {None}, pk : {TRUE},
     has_auto : {FALSE}, auto_now : {FALSE}, auto_now_add : {FALSE}]

DefaultsOf(kind) ==
    CASE kind = "int" -> {None, "0"}
      [] kind = "bool" -> {None, "False"}
      [] kind = "text" -> {None, "a"}
      [] OTHER -> {None}

\* A field that is neither the primary key nor a DatetimeField: it has no
\* auto_now / auto_now_add attribute at all.
PlainShapes ==
    {s \in [kind : {"int", "bool", "date", "text"}, null : BOOLEAN,
            default : {None, "0", "False", "a"}, pk : {FALSE},
            has_auto : {FALSE}, auto_now : {FALSE}, auto_now_add : {FALSE}] :
        s.default \in DefaultsOf(s.kind)}

\* A DatetimeField: it carries auto_now and auto_now_add, at most one set.
StampShapes ==
    {s \in [kind : {"datetime"}, null : BOOLEAN, default : {None},
            pk : {FALSE}, has_auto : {TRUE},
            auto_now : BOOLEAN, auto_now_add : BOOLEAN] :
        ~(s.auto_now /\ s.auto_now_add)}

Shapes == PkShapes \cup PlainShapes \cup StampShapes

Field(name, s) ==
    [name |-> name, kind |-> s.kind, null |-> s.null, default |-> s.default,
     pk |-> s.pk, has_auto |-> s.has_auto, auto_now |-> s.auto_now,
     auto_now_add |-> s.auto_now_add]

\* model._meta.fields_map is an ordered mapping, so names are unique.
NameSeqs(n) ==
    {ns \in [1..n -> FieldNames] : \A i, j \in 1..n : ns[i] = ns[j] => i = j}

\* A model has exactly one primary key.
ShapeSeqs(n) ==
    {ss \in [1..n -> Shapes] : Cardinality({i \in 1..n : ss[i].pk}) = 1}

FieldMap(ns, ss) == [i \in 1..Len(ns) |-> Field(ns[i], ss[i])]

ModelClass(name, fm) == [kind |-> "model_class", name |-> name, fields |-> fm]

\* Objects that are not model classes: a class that does not derive from
\* Model, an instance of a model (no __name__), and a function (has __name__,
\* is not a class).
NonModels ==
    {[kind |-> "plain_class", name |-> "Plain", fields |-> <<>>],
     [kind |-> "instance", name |-> "", fields |-> <<>>],
     [kind |-> "callable", name |-> "main", fields |-> <<>>]}

-----------------------------------------------------------------------------
\* _get_field_type

GetFieldType(field) ==
    CASE field.kind = "int" -> "int"
      [] field.kind = "bool" -> "bool"
      [] field.kind = "datetime" -> "datetime"
      [] field.kind = "date" -> "datetime.date"
      [] OTHER -> "str"

-----------------------------------------------------------------------------
\* _inject_model_signature

\* The identifier parameter, prepended when add_id_argument is set.
IdParameters(add_id_argument) ==
    IF add_id_argument
    THEN <<[name |-> "id", kind |-> "POSITIONAL_ONLY", default |-> "Argument",
            required |-> TRUE, annotation |-> "int"]>>
    ELSE <<>>

\* The `continue` condition of the loop over fields_map.
SkippedMissingAutoNowAdd(field) ==
    \/ field.pk
    \/ field.has_auto /\ field.auto_now

Skipped(field) ==
    \/ field.pk
    \/ field.has_auto /\ field.auto_now
    \/ field.has_auto /\ field.auto_now_add

\* is_required, testing the default for truth instead of for None.
IsRequiredFalsy(field, force_optional) ==
    /\ ~field.null
    /\ field.default \in {None, "False", "0"}
    /\ ~force_optional

IsRequired(field, force_optional) ==
    /\ ~field.null
    /\ field.default = None
    /\ ~force_optional

FieldParameter(field, force_optional) ==
    [name |-> field.name, kind |-> "KEYWORD_ONLY", default |-> "Option",
     required |-> IsRequired(field, force_optional),
     annotation |-> GetFieldType(field)]

RECURSIVE FieldParameters(_, _, _)
FieldParameters(fm, i, force_optional) ==
    IF i > Len(fm) THEN <<>>
    ELSE IF Skipped(fm[i]) THEN FieldParameters(fm, i + 1, force_optional)
    ELSE <<FieldParameter(fm[i], force_optional)>>
            \o FieldParameters(fm, i + 1, force_optional)

\* The identifier parameter appended after the field parameters.
ParametersIdLast(fm, force_optional, add_id_argument) ==
    FieldParameters(fm, 1, force_optional) \o IdParameters(add_id_argument)

Parameters(fm, force_optional, add_id_argument) ==
    IdParameters(add_id_argument) \o FieldParameters(fm, 1, force_optional)

\* inspect.Signature(parameters) refuses two parameters of one name.
DuplicateNames(params) ==
    \E i, j \in 1..Len(params) : i # j /\ params[i].name = params[j].name

InjectModelSignature(fm, force_optional, add_id_argument) ==
    LET parameters == Parameters(fm, force_optional, add_id_argument)
    IN  IF DuplicateNames(parameters)
        THEN [exc |-> "ValueError", signature |-> <<>>]
        ELSE [exc |-> None, signature |-> parameters]

-----------------------------------------------------------------------------
\* _add_model_methods: command registration

\* str.upper() on the class names used here.
Upper(s) ==
    CASE s = "Task" -> "TASK"
      [] s = "Item" -> "ITEM"
      [] s = "Plain" -> "PLAIN"
      [] s = "main" -> "MAIN"
      [] OTHER -> s

\* `id: int = id_argument` of show and delete.
IdArgumentSignature ==
    <<[name |-> "id", kind |-> "POSITIONAL_OR_KEYWORD", default |-> "Argument",
       required |-> TRUE, annotation |-> "int"]>>

Command(name, help, signature) ==
    [name |-> name, help |-> help, signature |-> signature]

\* list, delete and show, registered before any signature is synthesized.
PlainCommands(name) ==
    <<Command("list", <<"List all ", name, " instances.">>, <<>>),
      Command("delete", <<"Delete a specific ", name, " instance.">>,
              IdArgumentSignature),
      Command("show", <<"Show a specific ", name, " instance.">>,
              IdArgumentSignature)>>

\* The outcome of ModelTyper(model): __init__ calls _add_model_methods, which
\* reads model.__name__ first, then tests issubclass, then registers the five
\* commands in the order list, delete, show, create, edit.
AddModelMethods(o) ==
    IF o.kind = "instance"
    THEN [status |-> "raised", exc |-> "AttributeError", commands |-> <<>>]
    ELSE IF o.kind # "model_class"
    THEN [status |-> "raised", exc |-> "TypeError", commands |-> <<>>]
    ELSE
      LET name == Upper(o.name)
          c == InjectModelSignature(o.fields, FALSE, FALSE)
          e == InjectModelSignature(o.fields, TRUE, TRUE)
          withCreate ==
              Append(PlainCommands(name),
                     Command("create", <<"Create a new ", name, " instance.">>,
                             c.signature))
      IN  IF c.exc # None
          THEN [status |-> "raised", exc |-> c.exc,
                commands |-> PlainCommands(name)]
          ELSE IF e.exc # None
          THEN [status |-> "raised", exc |-> e.exc, commands |-> withCreate]
          ELSE [status |-> "ready", exc |-> None,
                commands |->
                    Append(withCreate,
                           Command("edit",
                                   <<"Edit an existing ", name, " instance.">>,
                                   e.signature))]

Registered(cmd) ==
    /\ app.status = "ready"
    /\ \E k \in 1..Len(app.commands) : app.commands[k].name = cmd

SignatureOf(cmd) ==
    LET k == CHOOSE k \in 1..Len(app.commands) : app.commands[k].name = cmd
    IN  app.commands[k].signature

-----------------------------------------------------------------------------
\* The parsing layer: the keyword arguments a handler is called with.

Ids == 1..(MaxInstances + 1)

ValuesOf(annotation) ==
    CASE annotation = "int" -> {"0", "1"}
      [] annotation = "bool" -> {"True", "False"}
      [] annotation = "datetime" -> {"2024-01-01"}
      [] annotation = "datetime.date" -> {"2024-01-02"}
      [] OTHER -> {"a", "b"}

AllValues == {None, "0", "1", "True", "False", "2024-01-01", "2024-01-02", "a", "b"}

Options(signature) ==
    {k \in 1..Len(signature) : signature[k].default = "Option"}

OptionNames(signature) == {signature[k].name : k \in Options(signature)}

\* One value per flag: a required flag (Option(...)) is always supplied, an
\* optional one (Option(None)) is None when it is omitted.
Invocations(signature) ==
    {kw \in [OptionNames(signature) -> AllValues] :
        \A k \in Options(signature) :
            \/ kw[signature[k].name] \in ValuesOf(signature[k].annotation)
            \/ ~signature[k].required /\ kw[signature[k].name] = None}

-----------------------------------------------------------------------------
\* The persistence layer, as the handlers call it.

\* Position of the row model.get(id=id) returns, 0 for DoesNotExist.
Find(st, id) ==
    IF \E k \in 1..Len(st) : st[k].id = id
    THEN CHOOSE k \in 1..Len(st) : st[k].id = id
    ELSE 0

NonPkNames(fm) == {fm[k].name : k \in {j \in 1..Len(fm) : ~fm[j].pk}}

FieldNamed(fm, name) == fm[CHOOSE k \in 1..Len(fm) : fm[k].name = name]

\* model.create(**kwargs): a None passed for a non-nullable field is refused;
\* a field that is passed keeps the value passed, None included; a field that
\* is not passed takes its generated value or its default.
ModelCreate(st, id, fm, kwargs) ==
    IF \E n \in DOMAIN kwargs : kwargs[n] = None /\ ~FieldNamed(fm, n).null
    THEN [exc |-> "ValueError", store |-> st, instance |-> [id |-> 0, vals |-> <<>>]]
    ELSE
      LET instance ==
            [id |-> id,
             vals |-> [n \in NonPkNames(fm) |->
                         IF n \in DOMAIN kwargs THEN kwargs[n]
                         ELSE IF FieldNamed(fm, n).has_auto
                                 /\ (FieldNamed(fm, n).auto_now
                                     \/ FieldNamed(fm, n).auto_now_add)
                              THEN "now"
                              ELSE FieldNamed(fm, n).default]]
      IN  [exc |-> None, store |-> Append(st, instance), instance |-> instance]

\* instance.save()
InstanceSave(st, instance) ==
    [k \in 1..Len(st) |-> IF st[k].id = instance.id THEN instance ELSE st[k]]

\* instance.delete()
InstanceDelete(st, instance) ==
    SelectSeq(st, LAMBDA row : row.id # instance.id)

-----------------------------------------------------------------------------
\* Presentation: the panel printers, _show and listing.

Panel(printer, message) == [printer |-> printer, message |-> message]

NotFound(name, id) == <<name, " with ID ", ToString(id), " not found.">>

Deleted(name, id) == <<name, " with ID ", ToString(id), " deleted successfully.">>

NoInstances(name) == <<"No ", name, " instances found.">>

GetAttr(instance, field) ==
    IF field.pk THEN ToString(instance.id) ELSE instance.vals[field.name]

\* "\n".join(f"* {field}: {getattr(instance, field)}" for field in fields_map)
RECURSIVE ShowLines(_, _, _)
ShowLines(fm, instance, i) ==
    IF i > Len(fm) THEN <<>>
    ELSE (IF i = 1 THEN <<>> ELSE <<"\n">>)
         \o <<"* ", fm[i].name, ": ", GetAttr(instance, fm[i])>>
         \o ShowLines(fm, instance, i + 1)

ShowPanel(fm, instance) == Panel("info", ShowLines(fm, instance, 1))

\* str(instance): the model's string form, taken to name the row.
Str(name, instance) == <<"<", name, ": ", ToString(instance.id), ">">>

\* listing() with enumerate starting at 0.
ListingFromZero(title, instances) ==
    [title |-> title,
     rows |-> [i \in 1..Len(instances) |->
                 <<ToString(i - 1), Str(title, instances[i])>>]]

Listing(title, instances) ==
    [title |-> title,
     rows |-> [i \in 1..Len(instances) |->
                 <<ToString(i), Str(title, instances[i])>>]]

-----------------------------------------------------------------------------
\* The handlers. Each yields what one invocation leaves behind: the store, the
\* persistence calls made, what was printed, and the exception that escaped.

Outcome(st, cs, ps, ts, exc) ==
    [store |-> st, calls |-> cs, panels |-> ps, tables |-> ts, raised |-> exc]

\* create that saves the new instance twice after creating it.
CreateOutcomeSaveTwice(st, id, fm, kwargs) ==
    LET c == ModelCreate(st, id, fm, kwargs)
    IN  IF c.exc # None
        THEN Outcome(st, <<"create">>, <<>>, <<>>, c.exc)
        ELSE Outcome(InstanceSave(c.store, c.instance),
                     <<"create", "save", "save">>,
                     <<ShowPanel(fm, c.instance)>>, <<>>, None)

\* create: acreate() awaits model.create(**kwargs), then instance.save().
CreateOutcome(st, id, fm, kwargs) ==
    LET c == ModelCreate(st, id, fm, kwargs)
    IN  IF c.exc # None
        THEN Outcome(st, <<"create">>, <<>>, <<>>, c.exc)
        ELSE Outcome(InstanceSave(c.store, c.instance), <<"create", "save">>,
                     <<ShowPanel(fm, c.instance)>>, <<>>, None)

\* The setattr loop of aedit without its `is not None` test.
ApplyEditsNoFilter(instance, args) ==
    [instance EXCEPT !.vals =
        [n \in DOMAIN instance.vals |->
            IF n \in DOMAIN args THEN args[n] ELSE instance.vals[n]]]

\* The setattr loop of aedit; args is kwargs after args.pop("id").
ApplyEdits(instance, args) ==
    [instance EXCEPT !.vals =
        [n \in DOMAIN instance.vals |->
            IF n \in DOMAIN args /\ args[n] # None
            THEN args[n] ELSE instance.vals[n]]]

\* edit: asyncio.run(aedit()) stands outside any try, so DoesNotExist from
\* model.get leaves the handler.
EditOutcome(st, fm, id, args) ==
    LET k == Find(st, id)
    IN  IF k = 0
        THEN Outcome(st, <<"get">>, <<>>, <<>>, "DoesNotExist")
        ELSE LET instance == ApplyEdits(st[k], args)
             IN  Outcome(InstanceSave(st, instance), <<"get", "save">>,
                         <<ShowPanel(fm, instance)>>, <<>>, None)

\* list
ListOutcome(st, name) ==
    IF st = <<>>
    THEN Outcome(st, <<"all">>, <<Panel("warning", NoInstances(name))>>, <<>>, None)
    ELSE Outcome(st, <<"all">>, <<>>, <<Listing(name, st)>>, None)

\* show without its except clause.
ShowOutcomeNoCatch(st, name, fm, id) ==
    LET k == Find(st, id)
    IN  IF k = 0
        THEN Outcome(st, <<"get">>, <<>>, <<>>, "DoesNotExist")
        ELSE Outcome(st, <<"get">>, <<ShowPanel(fm, st[k])>>, <<>>, None)

\* show
ShowOutcome(st, name, fm, id) ==
    LET k == Find(st, id)
    IN  IF k = 0
        THEN Outcome(st, <<"get">>, <<Panel("error", NotFound(name, id))>>, <<>>, None)
        ELSE Outcome(st, <<"get">>, <<ShowPanel(fm, st[k])>>, <<>>, None)

\* delete
DeleteOutcome(st, name, id) ==
    LET k == Find(st, id)
    IN  IF k = 0
        THEN Outcome(st, <<"get">>, <<Panel("error", NotFound(name, id))>>, <<>>, None)
        ELSE Outcome(InstanceDelete(st, st[k]), <<"get", "delete">>,
                     <<Panel("info", Deleted(name, id))>>, <<>>, None)

-----------------------------------------------------------------------------
\* The state machine.

NoKwargs == [n \in {} |-> None]

Invocation(cmd, id, kwargs) == [cmd |-> cmd, id |-> id, kwargs |-> kwargs]

Task ==
    ModelClass("Task",
        <<[name |-> "id", kind |-> "int", null |-> FALSE, default |-> None,
           pk |-> TRUE, has_auto |-> FALSE, auto_now |-> FALSE,
           auto_now_add |-> FALSE],
          [name |-> "title", kind |-> "text", null |-> FALSE, default |-> None,
           pk |-> FALSE, has_auto |-> FALSE, auto_now |-> FALSE,
           auto_now_add |-> FALSE],
          [name |-> "done", kind |-> "bool", null |-> FALSE, default |-> "False",
           pk |-> FALSE, has_auto |-> FALSE, auto_now |-> FALSE,
           auto_now_add |-> FALSE]>>)

Item ==
    ModelClass("Item",
        <<[name |-> "id", kind |-> "int", null |-> FALSE, default |-> None,
           pk |-> TRUE, has_auto |-> FALSE, auto_now |-> FALSE,
           auto_now_add |-> FALSE],
          [name |-> "note", kind |-> "text", null |-> TRUE, default |-> None,
           pk |-> FALSE, has_auto |-> FALSE, auto_now |-> FALSE,
           auto_now_add |-> FALSE],
          [name |-> "qty", kind |-> "int", null |-> TRUE, default |-> "0",
           pk |-> FALSE, has_auto |-> FALSE, auto_now |-> FALSE,
           auto_now_add |-> FALSE],
          [name |-> "created", kind |-> "datetime", null |-> FALSE,
           default |-> None, pk |-> FALSE, has_auto |-> TRUE,
           auto_now |-> FALSE, auto_now_add |-> TRUE]>>)

StoreObjects == {Task, Item} \cup NonModels

Fresh(o) ==
    /\ obj = o
    /\ app = [status |-> "new", exc |-> None, commands |-> <<>>]
    /\ store = <<>>
    /\ nextId = 1
    /\ last = Invocation("none", 0, NoKwargs)
    /\ pre = <<>>
    /\ calls = <<>>
    /\ panels = <<>>
    /\ tables = <<>>
    /\ raised = None

Init == \E o \in StoreObjects : Fresh(o)

InitSig ==
    \/ \E o \in NonModels : Fresh(o)
    \/ \E n \in 1..MaxFields :
         \E ns \in NameSeqs(n), ss \in ShapeSeqs(n) :
            Fresh(ModelClass("Task", FieldMap(ns, ss)))

\* ModelTyper.__init__
Construct ==
    /\ app.status = "new"
    /\ app' = AddModelMethods(obj)
    /\ UNCHANGED <<obj, store, nextId, last, pre, calls, panels, tables, raised>>

Ran(invocation, o) ==
    /\ last' = invocation
    /\ pre' = store
    /\ store' = o.store
    /\ calls' = o.calls
    /\ panels' = o.panels
    /\ tables' = o.tables
    /\ raised' = o.raised
    /\ UNCHANGED <<obj, app>>

create ==
    /\ Registered("create")
    /\ nextId <= MaxInstances
    /\ \E kwargs \in Invocations(SignatureOf("create")) :
         LET o == CreateOutcome(store, nextId, obj.fields, kwargs)
         IN  /\ Ran(Invocation("create", 0, kwargs), o)
             /\ nextId' = IF o.raised = None THEN nextId + 1 ELSE nextId

edit ==
    /\ Registered("edit")
    /\ \E id \in Ids, args \in Invocations(SignatureOf("edit")) :
         Ran(Invocation("edit", id, args),
             EditOutcome(store, obj.fields, id, args))
    /\ UNCHANGED nextId

list ==
    /\ Registered("list")
    /\ Ran(Invocation("list", 0, NoKwargs), ListOutcome(store, Upper(obj.name)))
    /\ UNCHANGED nextId

show ==
    /\ Registered("show")
    /\ \E id \in Ids :
         Ran(Invocation("show", id, NoKwargs),
             ShowOutcome(store, Upper(obj.name), obj.fields, id))
    /\ UNCHANGED nextId

delete ==
    /\ Registered("delete")
    /\ \E id \in Ids :
         Ran(Invocation("delete", id, NoKwargs),
             DeleteOutcome(store, Upper(obj.name), id))
    /\ UNCHANGED nextId

Next == Construct \/ create \/ edit \/ list \/ show \/ delete

Spec == Init /\ [][Next]_vars

NextSig == Construct

SpecSig == InitSig /\ [][NextSig]_vars

-----------------------------------------------------------------------------
\* Properties.

Name == Upper(obj.name)

Missing == Find(pre, last.id) = 0

NotFoundPanel == Panel("error", NotFound(Name, last.id))

\* C1: edit(id, ...) with an id that is not in the store prints the not-found
\* error for the model and id, returns normally, saves nothing and leaves the
\* store as it was.
C1_EditMissingReportsNotFound ==
    (last.cmd = "edit" /\ Missing) =>
        /\ panels = <<NotFoundPanel>>
        /\ raised = None
        /\ \A k \in 1..Len(calls) : calls[k] # "save"
        /\ store = pre

\* The flags of the last create that were omitted although their field
\* declares a default.
OmittedWithDefault ==
    {n \in DOMAIN last.kwargs :
        last.kwargs[n] = None /\ FieldNamed(obj.fields, n).default # None}

\* C2: a create that supplies every required flag and omits an optional flag
\* whose field has a default persists and shows an instance carrying that
\* default for the omitted flag.
C2_CreateOmittedFlagTakesDefault ==
    (last.cmd = "create" /\ OmittedWithDefault # {}) =>
        /\ raised = None
        /\ Len(store) = Len(pre) + 1
        /\ \A n \in OmittedWithDefault :
             store[Len(store)].vals[n] = FieldNamed(obj.fields, n).default
        /\ panels = <<ShowPanel(obj.fields, store[Len(store)])>>

\* C3: show(id) and delete(id) with an id that is not in the store print
\* exactly "<MODEL> with ID <id> not found." and return; show renders no
\* instance; delete issues no delete, prints no success message and leaves
\* the store as it was.
C3_ShowDeleteMissing ==
    /\ (last.cmd = "show" /\ Missing) =>
          /\ panels = <<NotFoundPanel>>
          /\ tables = <<>>
          /\ raised = None
          /\ store = pre
    /\ (last.cmd = "delete" /\ Missing) =>
          /\ panels = <<NotFoundPanel>>
          /\ raised = None
          /\ \A k \in 1..Len(calls) : calls[k] # "delete"
          /\ store = pre

C3_Witness ==
    /\ last.cmd \in {"show", "delete"}
    /\ Missing
    /\ pre # <<>>
    /\ panels # <<>>

\* C4: after edit(id, ...) of an existing instance, every field whose flag was
\* supplied holds the supplied value, every field whose flag was omitted holds
\* the value it held before, the identifier is the same, and no other row
\* changed.
C4_EditFrame ==
    (last.cmd = "edit" /\ ~Missing) =>
        LET k == Find(pre, last.id)
        IN  /\ Len(store) = Len(pre)
            /\ \A j \in 1..Len(pre) : j # k => store[j] = pre[j]
            /\ store[k].id = pre[k].id
            /\ DOMAIN store[k].vals = DOMAIN pre[k].vals
            /\ \A n \in DOMAIN pre[k].vals :
                 store[k].vals[n] =
                    IF n \in DOMAIN last.kwargs /\ last.kwargs[n] # None
                    THEN last.kwargs[n]
                    ELSE pre[k].vals[n]

C4_Witness ==
    /\ last.cmd = "edit"
    /\ ~Missing
    /\ Len(pre) = 2
    /\ store # pre
    /\ \E n \in DOMAIN last.kwargs : last.kwargs[n] = None
    /\ \E n \in DOMAIN last.kwargs : last.kwargs[n] # None

Writes(cs) ==
    Cardinality({k \in 1..Len(cs) : cs[k] \in {"create", "save", "delete"}})

NoCallRepeated == \A i, j \in 1..Len(calls) : calls[i] = calls[j] => i = j

\* C5 as stated: a successful create issues exactly one write, a successful
\* edit exactly one save, a successful delete exactly one delete, and no
\* handler repeats a persistence call.
C5_OneWritePerMutation ==
    /\ (last.cmd = "create" /\ raised = None) => Writes(calls) = 1
    /\ (last.cmd = "edit" /\ raised = None) => Writes(calls) = 1
    /\ (last.cmd = "delete" /\ ~Missing) => Writes(calls) = 1
    /\ NoCallRepeated

\* C5 as amended: no handler repeats a persistence call; a successful create
\* makes one create call followed by one save of the new instance, which
\* together add exactly one row; a successful edit makes exactly one save; a
\* successful delete exactly one delete.
C5_SingleMutation ==
    /\ NoCallRepeated
    /\ (last.cmd = "create" /\ raised = None) =>
          /\ calls = <<"create", "save">>
          /\ Len(store) = Len(pre) + 1
          /\ SubSeq(store, 1, Len(pre)) = pre
    /\ (last.cmd = "edit" /\ raised = None) =>
          /\ calls = <<"get", "save">>
          /\ Len(store) = Len(pre)
    /\ (last.cmd = "delete" /\ ~Missing) =>
          /\ calls = <<"get", "delete">>
          /\ Len(store) = Len(pre) - 1

C5_Witness ==
    /\ last.cmd = "create"
    /\ raised = None
    /\ calls = <<"create", "save">>
    /\ Len(store) = 2

\* The registered commands whose signature was synthesized, with their mode.
Synthesized ==
    {k \in 1..Len(app.commands) : app.commands[k].name \in {"create", "edit"}}

FieldPart(signature) == SelectSeq(signature, LAMBDA p : p.default = "Option")

\* C6: the parameter of a retained field is required iff the field is not
\* nullable, has no default and the mode is create; otherwise (any field in
\* edit mode, any field with a present default, false and 0 included) it is
\* optional.
C6_Requiredness ==
    \A k \in Synthesized :
        LET fp == FieldPart(app.commands[k].signature)
        IN  \A i \in 1..Len(fp) :
              LET f == FieldNamed(obj.fields, fp[i].name)
              IN  fp[i].required <=>
                    (~f.null /\ f.default = None /\ app.commands[k].name = "create")

C6_Witness ==
    /\ app.status = "ready"
    /\ \E k \in Synthesized :
         /\ app.commands[k].name = "create"
         /\ \E i \in 1..Len(app.commands[k].signature) :
              LET p == app.commands[k].signature[i]
              IN  /\ ~p.required
                  /\ ~FieldNamed(obj.fields, p.name).null
                  /\ FieldNamed(obj.fields, p.name).default \in {"False", "0"}

\* C7: list on an empty store prints the warning "No <MODEL> instances found."
\* and no table; on a store of n >= 1 rows it prints no warning and one table
\* of n rows numbered 1..n in the order all() returned them; the store is
\* unchanged either way.
C7_List ==
    last.cmd = "list" =>
        /\ store = pre
        /\ raised = None
        /\ pre = <<>> =>
              /\ panels = <<Panel("warning", NoInstances(Name))>>
              /\ tables = <<>>
        /\ pre # <<>> =>
              /\ panels = <<>>
              /\ Len(tables) = 1
              /\ tables[1].title = Name
              /\ Len(tables[1].rows) = Len(pre)
              /\ \A i \in 1..Len(pre) :
                   tables[1].rows[i] = <<ToString(i), Str(Name, pre[i])>>

C7_Witness ==
    /\ last.cmd = "list"
    /\ Len(pre) = 2
    /\ tables # <<>>

\* C8: constructing the app with an object that is not a model class fails
\* with a type error, and none of the five commands is registered.
C8_NonModelTypeError ==
    (app.status # "new" /\ obj.kind # "model_class") =>
        /\ app.status = "raised"
        /\ app.exc = "TypeError"
        /\ app.commands = <<>>

\* The fields the synthesizer is to keep, in declared order.
Retained ==
    SelectSeq(obj.fields,
              LAMBDA f : ~(f.pk \/ (f.kind = "datetime"
                                    /\ (f.auto_now \/ f.auto_now_add))))

\* C9: in both modes the field parameters are exactly the model's fields in
\* declared order without the primary key and without the timestamp fields
\* flagged auto-now or auto-now-add.
C9_FieldParameters ==
    \A k \in Synthesized :
        LET fp == FieldPart(app.commands[k].signature)
        IN  /\ Len(fp) = Len(Retained)
            /\ \A i \in 1..Len(fp) : fp[i].name = Retained[i].name

C9_Witness ==
    /\ app.status = "ready"
    /\ Len(obj.fields) > Len(Retained) + 1
    /\ Len(Retained) >= 1
    /\ \E i \in 1..Len(obj.fields) : obj.fields[i].auto_now_add

IdentifierParameters(signature) ==
    {i \in 1..Len(signature) : signature[i].default = "Argument"}

====
